---- MODULE Spec2Model ----
(***************************************************************************)
(* SadapDii: audio capture and transcript segment reconciliation.          *)
(*                                                                         *)
(* The module models                                                       *)
(*   - the useTextSegments hook (segment list, provisional reference and   *)
(*     the value of that reference captured by the rendered callbacks),    *)
(*   - the AudioRecordingService singleton and the browser objects it      *)
(*     holds (streams, MediaRecorders, the analysis graph),                *)
(*   - the RealtimeTranscriptionService singleton and its recognizer,      *)
(*   - the useRealtimeTranscription and useAudioRecording hooks and the    *)
(*     wiring of all of them in App.                                       *)
(* Asynchronous functions are split at their awaits: every pending call    *)
(* is a record in `calls` holding its position and the values its closure  *)
(* captured when it was invoked.                                           *)
(***************************************************************************)
EXTENDS Integers, Sequences, FiniteSets, TLC

Null == "null"

\* ------------------------------------------------------------------ bounds
MaxSegs == 2
MaxClock == 1
MaxCalls == 3
MaxRtCalls == 2
MaxChunks == 1
MaxEvents == 2
MaxLoads == 1
MaxFiles == 1
MaxBins == 2
MaxMagCalls == 2
MaxBatch == 3

\* ------------------------------------------------------------------- texts
\* A text is a sequence of one-character strings.
IsSpace(c) == c \in {" ", "\t", "\n"}

RECURSIVE TrimStart(_)
TrimStart(t) ==
    IF t = <<>> THEN <<>>
    ELSE IF IsSpace(Head(t)) THEN TrimStart(Tail(t)) ELSE t

RECURSIVE TrimEnd(_)
TrimEnd(t) ==
    IF t = <<>> THEN <<>>
    ELSE IF IsSpace(t[Len(t)]) THEN TrimEnd(SubSeq(t, 1, Len(t) - 1)) ELSE t

\* String.prototype.trim
Trim(t) == TrimEnd(TrimStart(t))

\* The texts the callers pass in: blank, plain, padded.
Texts == { <<" ">>, <<"a">>, <<" ", "b", " ">> }

\* ------------------------------------------------------------------- state
VARIABLES
    \* useTextSegments
    segments,           \* useState<TextSegment[]>: the list, pending updaters applied
    currentRealtimeId,  \* useState<string | null>: id of the temporary segment
    renderedRealtimeId, \* currentRealtimeId as captured by the rendered addRealtimeText
    now,                \* Date.now()
    lastCall,           \* the last hook call and its arguments (history)
    run,                \* progress of a Partial+ Final run from the empty list (history)
    \* AudioRecordingService and the browser objects it creates
    svc,                \* the fields of the audioRecordingService singleton
    media,              \* streams, MediaRecorders, AudioContexts, animation frames
    \* useAudioRecording and App
    hook,               \* isRecording, error, currentBlob, audioMagnitude
    realtimeEnabled,    \* App's useState(false), passed to useAudioRecording
    calls,              \* the startRecording / stopRecording calls made so far
    \* RealtimeTranscriptionService, its recognizers, useRealtimeTranscription
    rt,                 \* the fields of the realtimeTranscriptionService singleton
    recognizers,        \* the SpeechRecognizers created so far
    rthook,             \* isConnected, connectionStatus, error
    configured,         \* the Azure key and region are present in the environment
    delivered,          \* recognizer results delivered so far (history)
    \* AzureSpeechTranscriptionService and the language the App has selected
    speech,             \* the speechConfig of the azureSpeechService singleton
    selectedLanguage,   \* App's useState("auto")
    batches,            \* the transcribeAudio calls made on the service (history)
    \* App: the document and its files
    title,              \* App's useState("Untitled Note")
    timers,             \* the insertions handleLoad deferred with setTimeout, per load
    written,            \* the files handed to saveAs so far
    report,             \* the alert or error the last document operation raised
    loaded              \* the last successful load: the document it read (history)

segVars == <<segments, currentRealtimeId, renderedRealtimeId, now, lastCall, run>>

recVars == <<svc, media, hook, realtimeEnabled, calls, rt, recognizers, rthook,
             configured, delivered, speech, selectedLanguage, batches>>

docVars == <<title, timers, written, report, loaded>>

vars == <<segments, currentRealtimeId, renderedRealtimeId, now, lastCall, run,
          svc, media, hook, realtimeEnabled, calls, rt, recognizers, rthook,
          configured, delivered, speech, selectedLanguage, batches,
          title, timers, written, report, loaded>>

\* ----------------------------------------------------------- useTextSegments
\* null as the value of a string | null id
NullId == [prefix |-> "null", time |-> 0, rnd |-> 0]

TempId(time) == [prefix |-> "realtime_temp", time |-> time, rnd |-> 0]
FinalId(time, r) == [prefix |-> "realtime_final", time |-> time, rnd |-> r]
AzureId(time, r) == [prefix |-> "azure_speech", time |-> time, rnd |-> r]

\* Math.random(): a draw never repeats a value that is still in use. The draws
\* are numbered, and a draw takes the least number no id of the list carries.
RECURSIVE LeastFree(_, _)
LeastFree(used, n) == IF n \in used THEN LeastFree(used, n + 1) ELSE n

Random(segs) == LeastFree({segs[i].id.rnd : i \in 1..Len(segs)}, 1)

NewSegment(id, text, time) ==
    [id |-> id, text |-> Trim(text), isUserInput |-> FALSE, timestamp |-> time]

\* Array.prototype.filter / map
RECURSIVE FilterOutId(_, _)
FilterOutId(segs, id) ==
    IF segs = <<>> THEN <<>>
    ELSE IF Head(segs).id # id
         THEN <<Head(segs)>> \o FilterOutId(Tail(segs), id)
         ELSE FilterOutId(Tail(segs), id)

SetTextOfId(segs, id, text) ==
    [i \in 1..Len(segs) |->
        IF segs[i].id = id THEN [segs[i] EXCEPT !.text = text] ELSE segs[i]]

\* the map of updateSegment as it would be without the test of the id
SetTextAndInputOfAll(segs, id, text, isUserInput) ==
    [i \in 1..Len(segs) |->
        [segs[i] EXCEPT !.text = text, !.isUserInput = isUserInput]]

SetTextAndInputOfId(segs, id, text, isUserInput) ==
    [i \in 1..Len(segs) |->
        IF segs[i].id = id
        THEN [segs[i] EXCEPT !.text = text, !.isUserInput = isUserInput]
        ELSE segs[i]]

\* addTranscribedText: append a permanent segment
AddTranscribedTextSegs(segs, text, time, r) ==
    Append(segs, NewSegment(AzureId(time, r), text, time))

\* addRealtimeText, isFinal branch: the list after the updater of setSegments
FinalSegs(segs, closureId, text, time, r) ==
    Append(IF closureId # NullId THEN FilterOutId(segs, closureId) ELSE segs,
           NewSegment(FinalId(time, r), text, time))

\* addRealtimeText, partial branch: the list after the updater of setSegments
PartialSegs(segs, closureId, text, time) ==
    IF closureId # NullId
    THEN SetTextOfId(segs, closureId, Trim(text))
    ELSE Append(segs, NewSegment(TempId(time), text, time))

\* addRealtimeText, partial branch: the provisional reference after the call
PartialRealtimeId(current, closureId, time) ==
    IF closureId # NullId THEN current ELSE TempId(time)

\* addRealtimeText: the list after the call
AddRealtimeTextSegs(segs, closureId, text, isFinal, time, r) ==
    IF Trim(text) = <<>> THEN segs
    ELSE IF isFinal THEN FinalSegs(segs, closureId, text, time, r)
    ELSE PartialSegs(segs, closureId, text, time)

\* The progress of a run "Partial+ Final" that started from the empty list.
RunAfter(r, isFinal) ==
    CASE r \in {"start", "partials"} /\ ~isFinal -> "partials"
      [] r = "partials" /\ isFinal -> "final"
      [] OTHER -> "off"

Call(op, text, isFinal) ==
    [op |-> op, text |-> text, isFinal |-> isFinal]

AddTranscribedText(text) ==
    /\ Len(segments) < MaxSegs
    /\ segments' = AddTranscribedTextSegs(segments, text, now, Random(segments))
    /\ lastCall' = Call("addTranscribedText", text, TRUE)
    /\ run' = "off"
    /\ UNCHANGED <<currentRealtimeId, renderedRealtimeId, now>>
    /\ UNCHANGED recVars
    /\ UNCHANGED docVars

\* addRealtimeText as it would be without the test of the blank text
AddRealtimeTextUnguarded(text, isFinal) ==
    /\ lastCall' = Call("addRealtimeText", text, isFinal)
    /\ run' = RunAfter(run, isFinal)
    /\ IF isFinal
       THEN /\ segments' =
                   FinalSegs(segments, renderedRealtimeId, text, now, Random(segments))
            /\ currentRealtimeId' = NullId
       ELSE /\ segments' = PartialSegs(segments, renderedRealtimeId, text, now)
            /\ currentRealtimeId' =
                   PartialRealtimeId(currentRealtimeId, renderedRealtimeId, now)
    /\ Len(segments') <= MaxSegs
    /\ UNCHANGED <<renderedRealtimeId, now>>
    /\ UNCHANGED recVars
    /\ UNCHANGED docVars

AddRealtimeText(text, isFinal) ==
    /\ lastCall' = Call("addRealtimeText", text, isFinal)
    /\ run' = RunAfter(run, isFinal)
    /\ IF Trim(text) = <<>>
       THEN UNCHANGED <<segments, currentRealtimeId>>
       ELSE IF isFinal
       THEN /\ segments' =
                   FinalSegs(segments, renderedRealtimeId, text, now, Random(segments))
            /\ currentRealtimeId' = NullId
       ELSE /\ segments' = PartialSegs(segments, renderedRealtimeId, text, now)
            /\ currentRealtimeId' =
                   PartialRealtimeId(currentRealtimeId, renderedRealtimeId, now)
    /\ Len(segments') <= MaxSegs
    /\ UNCHANGED <<renderedRealtimeId, now>>
    /\ UNCHANGED recVars
    /\ UNCHANGED docVars

UpdateSegment(id, newText, isUserInput) ==
    /\ segments' = SetTextAndInputOfId(segments, id, newText, isUserInput)
    /\ lastCall' = Call("updateSegment", newText, isUserInput)
    /\ run' = "off"
    /\ UNCHANGED <<currentRealtimeId, renderedRealtimeId, now>>
    /\ UNCHANGED recVars
    /\ UNCHANGED docVars

ClearSegments ==
    /\ segments' = <<>>
    /\ lastCall' = Call("clearSegments", <<>>, FALSE)
    /\ run' = "off"
    /\ UNCHANGED <<currentRealtimeId, renderedRealtimeId, now>>
    /\ UNCHANGED recVars
    /\ UNCHANGED docVars

\* React re-renders the hook: the callbacks are rebuilt over the current state.
Render ==
    /\ renderedRealtimeId # currentRealtimeId
    /\ renderedRealtimeId' = currentRealtimeId
    /\ UNCHANGED <<segments, currentRealtimeId, now, lastCall, run>>
    /\ UNCHANGED recVars
    /\ UNCHANGED docVars

\* The millisecond clock advances.
Tick ==
    /\ now < MaxClock
    /\ now' = now + 1
    /\ UNCHANGED <<segments, currentRealtimeId, renderedRealtimeId, lastCall, run>>
    /\ UNCHANGED recVars
    /\ UNCHANGED docVars

InitSeg ==
    /\ segments = <<>>
    /\ currentRealtimeId = NullId
    /\ renderedRealtimeId = NullId
    /\ now = 0
    /\ lastCall = Call("none", <<>>, FALSE)
    /\ run = "start"

IdsInList == {segments[i].id : i \in 1..Len(segments)}

NextSeg ==
    \/ \E t \in Texts : AddTranscribedText(t)
    \/ \E t \in Texts, f \in BOOLEAN : AddRealtimeText(t, f)
    \/ \E id \in IdsInList \cup {TempId(0)}, t \in Texts, u \in BOOLEAN :
           UpdateSegment(id, t, u)
    \/ ClearSegments
    \/ Render
    \/ Tick



\* ------------------------------------------------------ AudioRecordingService
\* The operators below take and return a world: a record of everything the
\* services and hooks of the App can change.
World ==
    [svc |-> svc, media |-> media, hook |-> hook, rt |-> rt,
     recognizers |-> recognizers, rthook |-> rthook, segments |-> segments]

\* A chunk is a non-empty Blob a recorder delivered with dataavailable.
Chunk(r, k) == [rec |-> r, seq |-> k]

NoBlob == [held |-> FALSE, chunks |-> <<>>]
Blob(chunks) == [held |-> TRUE, chunks |-> chunks]

\* The fields of a new AudioRecordingService
NewService ==
    [mediaRecorder |-> 0, audioChunks |-> <<>>, stream |-> 0, audioContext |-> 0,
     analyser |-> FALSE, dataArray |-> FALSE, animationFrame |-> 0,
     onMagnitudeUpdate |-> FALSE,
     data |-> <<>>]         \* the bins dataArray holds

NewMedia ==
    [streams |-> <<>>,      \* per MediaStream: its tracks are live
     recorders |-> <<>>,    \* per MediaRecorder: stream, state, onstop, the stop task
     contexts |-> <<>>,     \* per AudioContext of the analysis: it is open
     frames |-> {},         \* the analysis loops that have an animation frame pending
     loops |-> 0]           \* the analysis loops started so far

\* A loudness value is the fraction num / den.
Zero == [num |-> 0, den |-> 1]
One == [num |-> 1, den |-> 1]

RECURSIVE Sum(_)
Sum(f) == IF f = <<>> THEN 0 ELSE Head(f) + Sum(Tail(f))

RECURSIVE Gcd(_, _)
Gcd(a, b) == IF b = 0 THEN a ELSE Gcd(b, a % b)

Fraction(n, d) == [num |-> n \div Gcd(n, d), den |-> d \div Gcd(n, d)]

\* updateMagnitude as it would be without Math.min
MagnitudeUnclamped(frame) == Fraction(Sum(frame), 128 * Len(frame))

\* updateMagnitude: Math.min(average / 128, 1) with average = sum / length
Magnitude(frame) ==
    IF Sum(frame) >= 128 * Len(frame) THEN One
    ELSE Fraction(Sum(frame), 128 * Len(frame))

\* The frequency frames the analyser hands out (bins in 0..255).
Frames == { <<96, 32>> }

\* isRecording(): this.mediaRecorder?.state === "recording"
IsRecording(w) ==
    /\ w.svc.mediaRecorder # 0
    /\ w.media.recorders[w.svc.mediaRecorder].state = "recording"

\* updateMagnitude, run by the analysis loop `loop` on the frame `frame`
UpdateMagnitude(w, loop, frame) ==
    IF ~w.svc.analyser \/ ~w.svc.dataArray \/ ~IsRecording(w)
    THEN w
    ELSE [w EXCEPT
            !.hook.audioMagnitude =
                IF w.svc.onMagnitudeUpdate THEN Magnitude(frame) ELSE @,
            !.svc.data = frame,
            !.svc.animationFrame = loop,
            !.media.frames = @ \cup {loop}]

\* startMagnitudeAnalysis: a new loop, whose first step runs at once
StartMagnitudeAnalysis(w, frame) ==
    IF ~w.svc.analyser \/ ~w.svc.dataArray
    THEN w
    ELSE UpdateMagnitude([w EXCEPT !.media.loops = @ + 1], w.media.loops + 1, frame)

\* setupAudioAnalysis. outcome "noContext": new AudioContext() throws;
\* "noSource": createMediaStreamSource throws; both are caught and logged.
SetupAudioAnalysis(w, outcome, frame) ==
    IF w.svc.stream = 0 \/ outcome = "noContext"
    THEN w
    ELSE LET ctx == Len(w.media.contexts) + 1
             w1 == [w EXCEPT !.media.contexts = Append(@, TRUE),
                             !.svc.audioContext = ctx,
                             !.svc.analyser = TRUE]
         IN  IF outcome = "noSource"
             THEN w1
             ELSE StartMagnitudeAnalysis([w1 EXCEPT !.svc.dataArray = TRUE], frame)

\* stopMagnitudeAnalysis
StopMagnitudeAnalysis(w) ==
    [w EXCEPT
        !.media.frames = IF w.svc.animationFrame # 0 THEN @ \ {w.svc.animationFrame} ELSE @,
        !.media.contexts =
            IF w.svc.audioContext # 0
            THEN [@ EXCEPT ![w.svc.audioContext] = FALSE] ELSE @,
        !.svc.animationFrame = 0,
        !.svc.audioContext = 0,
        !.svc.analyser = FALSE,
        !.svc.dataArray = FALSE,
        !.svc.data = <<>>,
        !.svc.onMagnitudeUpdate = FALSE]

\* stream.getTracks().forEach(track => track.stop()): the tracks end, and a
\* recorder still recording them is stopped by the browser, its stop task queued.
StopTracks(m, s) ==
    [m EXCEPT
        !.streams[s] = FALSE,
        !.recorders =
            [r \in 1..Len(m.recorders) |->
                IF m.recorders[r].stream = s /\ m.recorders[r].state = "recording"
                THEN [m.recorders[r] EXCEPT !.state = "inactive", !.stopQueued = TRUE]
                ELSE m.recorders[r]]]

\* cleanup
Cleanup(w) ==
    LET w1 == StopMagnitudeAnalysis(w)
        w2 == IF w1.svc.stream # 0
              THEN [w1 EXCEPT !.media = StopTracks(@, w1.svc.stream), !.svc.stream = 0]
              ELSE w1
    IN  [w2 EXCEPT !.svc.mediaRecorder = 0, !.svc.audioChunks = <<>>]

NewRecorder(s) ==
    [stream |-> s, state |-> "inactive", onstop |-> 0, stopQueued |-> FALSE,
     emitted |-> 0, recognizer |-> 0]

\* AudioRecordingService.startRecording from the point where the stream request
\* settles. outcome: "denied" (the request rejects), "noRecorder" (new
\* MediaRecorder throws), "noStart" (mediaRecorder.start throws), "ok".
\* The result is the world and the boolean the method returns.
ServiceStartRecording(w, outcome, analysis, frame) ==
    IF outcome = "denied"
    THEN [world |-> w, success |-> FALSE]
    ELSE LET s == Len(w.media.streams) + 1
             w1 == [w EXCEPT !.media.streams = Append(@, TRUE), !.svc.stream = s]
         IN  IF outcome = "noRecorder"
             THEN [world |-> w1, success |-> FALSE]
             ELSE LET r == Len(w1.media.recorders) + 1
                      w2 == [w1 EXCEPT !.media.recorders = Append(@, NewRecorder(s)),
                                       !.svc.mediaRecorder = r,
                                       !.svc.audioChunks = <<>>]
                  IN  IF outcome = "noStart"
                      THEN [world |-> w2, success |-> FALSE]
                      ELSE [world |->
                                SetupAudioAnalysis(
                                    [w2 EXCEPT !.media.recorders[r].state = "recording"],
                                    analysis, frame),
                            success |-> TRUE]

\* stopRecording as it would be if it ran cleanup() before rejecting
ServiceStopRecordingCleansUp(w, c, inactiveStop) ==
    [world |-> Cleanup(w), settled |-> "rejected", error |-> "No active recording"]

\* AudioRecordingService.stopRecording, called by the call `c`. inactiveStop is
\* what MediaRecorder.stop() does on an inactive recorder: "throws"
\* (InvalidStateError) or "noop". settled: "rejected" or "pending" (the promise
\* waits for the recorder's stop event).
ServiceStopRecording(w, c, inactiveStop) ==
    IF w.svc.mediaRecorder = 0
    THEN [world |-> w, settled |-> "rejected", error |-> "No active recording"]
    ELSE LET r == w.svc.mediaRecorder
             w1 == [w EXCEPT !.media.recorders[r].onstop = c]
         IN  IF w.media.recorders[r].state = "recording"
             THEN [world |-> [w1 EXCEPT !.media.recorders[r].state = "inactive",
                                        !.media.recorders[r].stopQueued = TRUE],
                   settled |-> "pending", error |-> Null]
             ELSE IF inactiveStop = "throws"
             THEN [world |-> w1, settled |-> "rejected", error |-> "InvalidStateError"]
             ELSE [world |-> w1, settled |-> "pending", error |-> Null]

\* mediaRecorder.ondataavailable of the recorder r, for data of size > 0
OnDataAvailable(w, r) ==
    [w EXCEPT !.svc.audioChunks = Append(@, Chunk(r, w.media.recorders[r].emitted + 1)),
              !.media.recorders[r].emitted = @ + 1]

\* mediaRecorder.onstop as stopRecording sets it: the Blob, then cleanup
OnStop(w) == [world |-> Cleanup(w), blob |-> Blob(w.svc.audioChunks)]

\* ----------------------------------------------- RealtimeTranscriptionService
NewRealtimeService == [recognizer |-> 0, audioConfig |-> FALSE, isConnected |-> FALSE]

NewRealtimeHook == [isConnected |-> FALSE, connectionStatus |-> "disconnected", error |-> Null]

NewRecognizer == [started |-> "pending", stop |-> "none", closed |-> FALSE]

ConnectionEvent(status) ==
    [type |-> "connection", status |-> status, text |-> <<>>, isFinal |-> FALSE, error |-> Null]
ErrorEvent(error) ==
    [type |-> "error", status |-> Null, text |-> <<>>, isFinal |-> FALSE, error |-> error]
TranscriptEvent(text) ==
    [type |-> "transcript", status |-> Null, text |-> text, isFinal |-> FALSE, error |-> Null]
FinalEvent(text) ==
    [type |-> "final", status |-> Null, text |-> text, isFinal |-> TRUE, error |-> Null]

\* App: the callback handed to useRealtimeTranscription,
\* (text) => addTranscribedText(text)
OnTranscriptionUpdate(w, text, isFinal) ==
    [w EXCEPT !.segments = AddTranscribedTextSegs(@, text, now, Random(@))]

\* useRealtimeTranscription: handleTranscriptionEvent
HandleTranscriptionEvent(w, event) ==
    CASE event.type = "transcript" ->
            IF event.text # <<>> THEN OnTranscriptionUpdate(w, event.text, event.isFinal)
            ELSE w
      [] event.type = "final" ->
            IF event.text # <<>> THEN OnTranscriptionUpdate(w, event.text, TRUE)
            ELSE w
      [] event.type = "connection" ->
            CASE event.status = "connected" ->
                    [w EXCEPT !.rthook = [isConnected |-> TRUE,
                                          connectionStatus |-> "connected",
                                          error |-> Null]]
              [] event.status = "connecting" ->
                    [w EXCEPT !.rthook.connectionStatus = "connecting"]
              [] event.status = "disconnected" ->
                    [w EXCEPT !.rthook.isConnected = FALSE,
                              !.rthook.connectionStatus = "disconnected"]
              [] event.status = "error" ->
                    [w EXCEPT !.rthook.isConnected = FALSE,
                              !.rthook.connectionStatus = "error"]
              [] OTHER -> w
      [] event.type = "error" ->
            [w EXCEPT !.rthook.error = event.error, !.rthook.connectionStatus = "error"]
      [] OTHER -> w

\* emitEvent: the hook's effect has registered handleTranscriptionEvent
EmitEvent(w, event) == HandleTranscriptionEvent(w, event)

NotConfigured == "Azure Speech key or region not configured"

\* RealtimeTranscriptionService.startRealtimeTranscription
ServiceStartRealtime(w) ==
    IF ~configured
    THEN [world |-> EmitEvent(w, ErrorEvent(NotConfigured)), threw |-> TRUE]
    ELSE LET w1 == EmitEvent(w, ConnectionEvent("connecting"))
         IN  [world |-> [w1 EXCEPT !.rt.audioConfig = TRUE,
                                   !.rt.recognizer = Len(w.recognizers) + 1,
                                   !.recognizers = Append(@, NewRecognizer)],
              threw |-> FALSE]

\* useRealtimeTranscription.startRealtimeTranscription
HookStartRealtime(w) ==
    LET w1 == [w EXCEPT !.rthook.error = Null, !.rthook.connectionStatus = "connecting"]
        res == ServiceStartRealtime(w1)
    IN  IF res.threw
        THEN [world |-> [res.world EXCEPT !.rthook.error = NotConfigured,
                                          !.rthook.connectionStatus = "error"],
              threw |-> TRUE]
        ELSE res

\* RealtimeTranscriptionService.stopRealtimeTranscription: the recognizer is
\* asked to stop (it stops later), the audio config is dropped
ServiceStopRealtime(w) ==
    LET w1 == IF w.rt.recognizer # 0 /\ w.recognizers[w.rt.recognizer].stop = "none"
              THEN [w EXCEPT !.recognizers[w.rt.recognizer].stop = "pending"]
              ELSE w
    IN  EmitEvent([w1 EXCEPT !.rt.audioConfig = FALSE, !.rt.isConnected = FALSE],
                  ConnectionEvent("disconnected"))

\* useRealtimeTranscription.stopRealtimeTranscription
HookStopRealtime(w) ==
    [ServiceStopRealtime(w) EXCEPT
        !.rthook = [isConnected |-> FALSE, connectionStatus |-> "disconnected",
                    error |-> Null]]

\* the success callback of startContinuousRecognitionAsync
OnRecognitionStarted(w, r) ==
    EmitEvent([w EXCEPT !.recognizers[r].started = "ok", !.rt.isConnected = TRUE],
              ConnectionEvent("connected"))

\* the error callback of startContinuousRecognitionAsync
OnRecognitionStartFailed(w, r) ==
    EmitEvent([w EXCEPT !.recognizers[r].started = "failed"],
              ErrorEvent("Failed to start recognition"))

\* the success callback of stopContinuousRecognitionAsync: it closes and drops
\* the recognizer the service holds
OnRecognitionStopped(w, r) ==
    LET w1 == [w EXCEPT !.recognizers[r].stop = "done"]
    IN  IF w1.rt.recognizer # 0
        THEN [w1 EXCEPT !.recognizers[w1.rt.recognizer].closed = TRUE,
                        !.rt.recognizer = 0]
        ELSE w1

\* recognizer.recognizing
OnRecognizing(w, text) ==
    IF text # <<>> THEN EmitEvent(w, TranscriptEvent(text)) ELSE w

\* recognizer.recognized
OnRecognized(w, reason, text) ==
    IF reason = "RecognizedSpeech" /\ text # <<>>
    THEN EmitEvent(w, FinalEvent(text))
    ELSE w

\* ------------------------------------------------- useAudioRecording and App
NewHook == [isRecording |-> FALSE, error |-> Null, currentBlob |-> NoBlob,
            audioMagnitude |-> Zero]

\* A call of startRecording or stopRecording: where it stands, the
\* realtimeEnabled its closure captured and its local audioBlob. The rest is
\* history: active is isRecording() when the call was made, rec the recorder it
\* stopped, batchCalls the calls of transcribeAudio, forwarded those of
\* onTranscription, rtStopped whether it stopped the real-time transcription.
NewCall(kind, pc, realtime, active) ==
    [kind |-> kind, pc |-> pc, realtime |-> realtime, audioBlob |-> NoBlob,
     active |-> active, rec |-> 0, batchCalls |-> 0, forwarded |-> 0,
     rtStopped |-> FALSE]

\* the catch block of startRecording
StartRecordingCatch(w, message) == [w EXCEPT !.hook.error = message]

\* startRecording as it would be without the inner try around the start of the
\* real-time transcription: the failure reaches the outer catch
StartRecordingResumeFatal(w, realtime, outcome, analysis, frame) ==
    LET res == ServiceStartRecording(w, outcome, analysis, frame)
    IN  IF ~res.success
        THEN StartRecordingCatch(res.world, "Failed to start recording")
        ELSE LET w1 == [res.world EXCEPT !.hook.isRecording = TRUE]
             IN  IF realtime /\ w1.svc.stream # 0
                 THEN LET opened == HookStartRealtime(w1)
                          w2 == [opened.world EXCEPT
                                    !.media.recorders[w1.svc.mediaRecorder].recognizer =
                                        opened.world.rt.recognizer]
                      IN  IF opened.threw THEN StartRecordingCatch(w2, NotConfigured)
                          ELSE w2
                 ELSE w1

\* startRecording after `await audioRecordingService.startRecording(...)`
StartRecordingResume(w, realtime, outcome, analysis, frame) ==
    LET res == ServiceStartRecording(w, outcome, analysis, frame)
    IN  IF ~res.success
        THEN StartRecordingCatch(res.world, "Failed to start recording")
        ELSE LET w1 == [res.world EXCEPT !.hook.isRecording = TRUE]
             IN  IF realtime /\ w1.svc.stream # 0
                 THEN LET opened == HookStartRealtime(w1)
                      IN  [opened.world EXCEPT
                              !.media.recorders[w1.svc.mediaRecorder].recognizer =
                                  opened.world.rt.recognizer]
                 ELSE w1

\* the catch block of stopRecording
StopRecordingCatch(w, message) ==
    [w EXCEPT !.hook.error = message, !.hook.isRecording = FALSE,
              !.hook.audioMagnitude = Zero]

\* stopRecording from `await audioRecordingService.stopRecording()` on: the
\* result holds the world and the call
StopRecordingAudio(w, c, call, inactiveStop) ==
    LET res == ServiceStopRecording(w, c, inactiveStop)
    IN  IF res.settled = "rejected"
        THEN [world |-> StopRecordingCatch(res.world, res.error),
              call |-> [call EXCEPT !.pc = "done"]]
        ELSE [world |-> res.world,
              call |-> [call EXCEPT !.pc = "stopping", !.rec = w.svc.mediaRecorder]]

\* stopRecording up to `await audioRecordingService.stopRecording()`. The awaits
\* before it do not suspend past a task: the service's stopRealtimeTranscription
\* finds no audio context on the audio config (it reads a property the SDK's
\* AudioConfig does not have) and awaits nothing itself.
StopRecordingBegin(w, c, realtime, inactiveStop) ==
    LET w0 == [w EXCEPT !.hook.error = Null]
        call == NewCall("stop", "begin", realtime, IsRecording(w))
    IN  IF ~realtime
        THEN StopRecordingAudio(w0, c, call, inactiveStop)
        ELSE StopRecordingAudio(HookStopRealtime(w0), c,
                                [call EXCEPT !.rtStopped = TRUE], inactiveStop)

BatchNotConfigured == "Azure Speech service is not configured"

\* stopRecording resumed with the Blob: the state updates, then the batch
\* transcription unless real-time is enabled
StopRecordingResolved(w, call, blob) ==
    LET w1 == [w EXCEPT !.hook.isRecording = FALSE, !.hook.currentBlob = blob,
                        !.hook.audioMagnitude = Zero]
        resumed == [call EXCEPT !.audioBlob = blob]
    IN  IF ~call.realtime
        THEN IF ~configured
             THEN [world |-> StopRecordingCatch(w1, BatchNotConfigured),
                   call |-> [resumed EXCEPT !.pc = "done", !.batchCalls = @ + 1]]
             ELSE [world |-> w1,
                   call |-> [resumed EXCEPT !.pc = "transcribing", !.batchCalls = @ + 1]]
        ELSE [world |-> w1, call |-> [resumed EXCEPT !.pc = "done"]]

\* App: onTranscription is addTranscribedText
OnTranscription(w, text) ==
    [w EXCEPT !.segments = AddTranscribedTextSegs(@, text, now, Random(@))]

\* stopRecording resumed with the outcome of azureSpeechService.transcribeAudio:
\* "recognized" (result.text || ""), "noMatch" (""), "canceled" (it rejects)
StopRecordingTranscribed(w, call, outcome, text) ==
    IF outcome = "canceled"
    THEN [world |-> StopRecordingCatch(w, "Speech recognition canceled"),
          call |-> [call EXCEPT !.pc = "done"]]
    ELSE [world |-> OnTranscription(w, IF outcome = "noMatch" THEN <<>> ELSE text),
          call |-> [call EXCEPT !.pc = "done", !.forwarded = @ + 1]]

\* The task the browser queues when a recorder stops: dataavailable with the
\* data left (finalData: its size is > 0), then stop.
StopTask(w, r, finalData) ==
    LET w1 == IF finalData THEN OnDataAvailable(w, r) ELSE w
        w2 == [w1 EXCEPT !.media.recorders[r].stopQueued = FALSE]
    IN  IF w2.media.recorders[r].onstop = 0
        THEN [world |-> w2, blob |-> NoBlob]
        ELSE OnStop(w2)

\* ------------------------------------------------------------------ actions
Install(w) ==
    /\ svc' = w.svc
    /\ media' = w.media
    /\ hook' = w.hook
    /\ rt' = w.rt
    /\ recognizers' = w.recognizers
    /\ rthook' = w.rthook
    /\ segments' = w.segments

hookVars == <<currentRealtimeId, renderedRealtimeId, now, lastCall, run, configured,
              speech, selectedLanguage, batches>>

\* The user toggles real-time transcription (ControlPanel's checkbox).
ToggleRealtime ==
    /\ realtimeEnabled' = ~realtimeEnabled
    /\ UNCHANGED <<segments, svc, media, hook, calls, rt, recognizers, rthook, delivered>>
    /\ UNCHANGED hookVars
    /\ UNCHANGED docVars

\* startRecording is called and runs up to the await of the stream request.
StartRecordingCall(max) ==
    /\ Len(calls) < max
    /\ hook' = [hook EXCEPT !.error = Null]
    /\ svc' = [svc EXCEPT !.onMagnitudeUpdate = TRUE]
    /\ calls' = Append(calls, NewCall("start", "acquiring", realtimeEnabled,
                                      IsRecording(World)))
    /\ UNCHANGED <<segments, media, realtimeEnabled, rt, recognizers, rthook, delivered>>
    /\ UNCHANGED hookVars
    /\ UNCHANGED docVars

\* The stream request settles and startRecording runs to its end.
StartRecordingSettles(c, outcome, analysis, frame) ==
    /\ calls[c].kind = "start" /\ calls[c].pc = "acquiring"
    /\ Install(StartRecordingResume(World, calls[c].realtime, outcome, analysis, frame))
    /\ calls' = [calls EXCEPT ![c].pc = "done"]
    /\ UNCHANGED <<realtimeEnabled, delivered>>
    /\ UNCHANGED hookVars
    /\ UNCHANGED docVars

\* stopRecording is called and runs up to the await of the recorder's stop.
StopRecordingCall(max, inactiveStop) ==
    /\ Len(calls) < max
    /\ LET res == StopRecordingBegin(World, Len(calls) + 1, realtimeEnabled, inactiveStop)
       IN  /\ Install(res.world)
           /\ calls' = Append(calls, res.call)
    /\ UNCHANGED <<realtimeEnabled, delivered>>
    /\ UNCHANGED hookVars
    /\ UNCHANGED docVars

\* A recorder delivers a chunk while recording (every 100 ms).
DataAvailable(r) ==
    /\ media.recorders[r].state = "recording"
    /\ media.recorders[r].emitted < MaxChunks
    /\ Install(OnDataAvailable(World, r))
    /\ UNCHANGED <<realtimeEnabled, calls, delivered>>
    /\ UNCHANGED hookVars
    /\ UNCHANGED docVars

\* The stop task of a recorder runs; the call whose promise its onstop handler
\* resolves goes on to its next await.
RecorderStops(r, finalData) ==
    /\ media.recorders[r].stopQueued
    /\ finalData => media.recorders[r].emitted < MaxChunks + 1
    /\ LET res == StopTask(World, r, finalData)
           c == media.recorders[r].onstop
       IN  IF c # 0 /\ calls[c].pc = "stopping"
           THEN LET next == StopRecordingResolved(res.world, calls[c], res.blob)
                IN  /\ Install(next.world)
                    /\ calls' = [calls EXCEPT ![c] = next.call]
           ELSE /\ Install(res.world)
                /\ UNCHANGED calls
    /\ UNCHANGED <<realtimeEnabled, delivered>>
    /\ UNCHANGED hookVars
    /\ UNCHANGED docVars

\* The batch transcription of a stopRecording call settles.
BatchSettles(c, outcome, text) ==
    /\ calls[c].kind = "stop" /\ calls[c].pc = "transcribing"
    /\ LET res == StopRecordingTranscribed(World, calls[c], outcome, text)
       IN  /\ Install(res.world)
           /\ calls' = [calls EXCEPT ![c] = res.call]
    /\ UNCHANGED <<realtimeEnabled, delivered>>
    /\ UNCHANGED hookVars
    /\ UNCHANGED docVars

\* An animation frame of an analysis loop fires.
AnimationFrame(loop, frame) ==
    /\ loop \in media.frames
    /\ Install(UpdateMagnitude([World EXCEPT !.media.frames = @ \ {loop}], loop, frame))
    /\ UNCHANGED <<realtimeEnabled, calls, delivered>>
    /\ UNCHANGED hookVars
    /\ UNCHANGED docVars

\* The recognizer reports that continuous recognition started, or failed to.
RecognitionStarted(r, ok) ==
    /\ recognizers[r].started = "pending"
    /\ recognizers[r].stop # "done" /\ ~recognizers[r].closed
    /\ Install(IF ok THEN OnRecognitionStarted(World, r)
               ELSE OnRecognitionStartFailed(World, r))
    /\ UNCHANGED <<realtimeEnabled, calls, delivered>>
    /\ UNCHANGED hookVars
    /\ UNCHANGED docVars

\* The recognizer reports that continuous recognition stopped.
RecognitionStopped(r) ==
    /\ recognizers[r].stop = "pending"
    /\ recognizers[r].started # "pending"
    /\ Install(OnRecognitionStopped(World, r))
    /\ UNCHANGED <<realtimeEnabled, calls, delivered>>
    /\ UNCHANGED hookVars
    /\ UNCHANGED docVars

\* The texts a recognition result carries.
ResultTexts == { <<>>, <<"a">> }

Listening(r) ==
    /\ recognizers[r].started = "ok"
    /\ recognizers[r].stop # "done"
    /\ ~recognizers[r].closed

\* What the recognizers have delivered (history): the number of results, the
\* last one, whether it came after its recognizer was asked to stop, and the
\* number of final results with a text.
Delivery(r, kind, text) ==
    [n |-> delivered.n + 1, rec |-> r, kind |-> kind, text |-> text,
     late |-> recognizers[r].stop # "none",
     finals |-> IF kind = "final" /\ text # <<>>
                THEN delivered.finals + 1 ELSE delivered.finals]

\* The recognizer delivers an intermediate result.
Recognizing(r, text) ==
    /\ Listening(r)
    /\ delivered.n < MaxEvents
    /\ Install(OnRecognizing(World, text))
    /\ delivered' = Delivery(r, "interim", text)
    /\ UNCHANGED <<realtimeEnabled, calls>>
    /\ UNCHANGED hookVars
    /\ UNCHANGED docVars

\* The recognizer delivers a final result.
Recognized(r, reason, text) ==
    /\ Listening(r)
    /\ delivered.n < MaxEvents
    /\ Install(OnRecognized(World, reason, text))
    /\ delivered' = Delivery(r, IF reason = "RecognizedSpeech" THEN "final" ELSE "noMatch", text)
    /\ UNCHANGED <<realtimeEnabled, calls>>
    /\ UNCHANGED hookVars
    /\ UNCHANGED docVars

\* ------------------------------------------ AzureSpeechTranscriptionService
\* The options of transcribeAudio carry a language code, "auto" or nothing.
Undefined == "undefined"

\* The constructor: with a key and a region, initializeSpeechConfig makes the
\* shared speechConfig with the default language "en-US". speechConfig tells
\* whether the service holds one, speechRecognitionLanguage is its language.
NewSpeechService(hasKeys) ==
    IF hasKeys
    THEN [speechConfig |-> TRUE, speechRecognitionLanguage |-> "en-US"]
    ELSE [speechConfig |-> FALSE, speechRecognitionLanguage |-> Null]

\* transcribeAudio up to its await of audioBlob.arrayBuffer(): it throws without
\* a speechConfig, and writes a language that is specified into the shared one.
TranscribeAudio(s, language) ==
    IF ~s.speechConfig
    THEN [speech |-> s, threw |-> TRUE]
    ELSE [speech |-> IF language # Undefined /\ language # "auto"
                     THEN [s EXCEPT !.speechRecognitionLanguage = language]
                     ELSE s,
          threw |-> FALSE]

\* LanguageSelector: onLanguageChange={setSelectedLanguage}
SetSelectedLanguage(l) ==
    /\ selectedLanguage # l
    /\ selectedLanguage' = l
    /\ UNCHANGED <<speech, batches>>
    /\ UNCHANGED <<svc, media, hook, realtimeEnabled, calls, rt, recognizers, rthook,
                   configured, delivered>>
    /\ UNCHANGED segVars
    /\ UNCHANGED docVars

\* A batch transcription begins: transcribeAudio is called with the language
\* stopRecording hands it (none when "auto" is selected) and runs to its await.
TranscribeAudioCall ==
    /\ Len(batches) < MaxBatch
    /\ LET language == IF selectedLanguage = "auto" THEN Undefined ELSE selectedLanguage
           res == TranscribeAudio(speech, language)
       IN  /\ speech' = res.speech
           /\ batches' = Append(batches,
                                [language |-> language,
                                 pc |-> IF res.threw THEN "threw" ELSE "buffering",
                                 recognizer |-> Null])
    /\ UNCHANGED selectedLanguage
    /\ UNCHANGED <<svc, media, hook, realtimeEnabled, calls, rt, recognizers, rthook,
                   configured, delivered>>
    /\ UNCHANGED segVars
    /\ UNCHANGED docVars

\* transcribeAudio resumes with the buffer: new SpeechRecognizer(this.speechConfig,
\* audioConfig) takes the language the shared speechConfig holds at that moment.
TranscribeAudioResumes(b) ==
    /\ batches[b].pc = "buffering"
    /\ batches' = [batches EXCEPT
                      ![b].pc = "recognizing",
                      ![b].recognizer = speech.speechRecognitionLanguage]
    /\ UNCHANGED <<speech, selectedLanguage>>
    /\ UNCHANGED <<svc, media, hook, realtimeEnabled, calls, rt, recognizers, rthook,
                   configured, delivered>>
    /\ UNCHANGED segVars
    /\ UNCHANGED docVars

\* ------------------------------------------------------------- FileService
\* Markup is a sequence of tokens: a token is a character or a character
\* reference. A document is what DOMParser makes of a file: its h1 elements
\* (none or one), its .content containers (none or one) with their spans, each
\* span with the colour its style attribute was written with and its markup.
EscapeChar(c) ==
    CASE c = "&" -> "&amp;"
      [] c = "<" -> "&lt;"
      [] c = ">" -> "&gt;"
      [] OTHER -> c

\* escapeHtml: div.textContent = text; return div.innerHTML
EscapeHtml(text) == [i \in 1..Len(text) |-> EscapeChar(text[i])]

TextChar(token) ==
    CASE token = "&amp;" -> "&"
      [] token = "&lt;" -> "<"
      [] token = "&gt;" -> ">"
      [] OTHER -> token

\* element.textContent
TextContent(markup) == [i \in 1..Len(markup) |-> TextChar(markup[i])]

\* span.style.color: the browser serializes a hex colour as rgb(r, g, b)
StyleColor(written_as) ==
    CASE written_as = "#22c55e" -> "rgb(34, 197, 94)"
      [] written_as = "#000000" -> "rgb(0, 0, 0)"
      [] OTHER -> written_as

Untitled == <<"U", "n", "t", "i", "t", "l", "e", "d">>
UntitledNote == Untitled \o <<" ", "N", "o", "t", "e">>

NoDocument == [h1 |-> <<>>, content |-> <<>>, total |-> 0]

\* generateHtmlContent
GenerateHtmlContent(t, segs) ==
    [h1 |-> <<EscapeHtml(t)>>,
     content |-> << [i \in 1..Len(segs) |->
                       [color |-> IF segs[i].isUserInput THEN "#22c55e" ELSE "#000000",
                        html |-> EscapeHtml(segs[i].text)]] >>,
     total |-> Len(segs)]

LoadedId(time, index) == [prefix |-> "loaded", time |-> time, rnd |-> index]

\* the loop of parseHtmlContent as it would be if it knew only the hex form
RECURSIVE SpanSegmentsHexOnly(_, _, _)
SpanSegmentsHexOnly(spans, index, time) ==
    IF index >= Len(spans) THEN <<>>
    ELSE LET span == spans[index + 1]
             text == TextContent(span.html)
             color == StyleColor(span.color)
             isUserInput == color = "#22c55e"
         IN  (IF Trim(text) # <<>>
              THEN << [id |-> LoadedId(time, index), text |-> Trim(text),
                       isUserInput |-> isUserInput, timestamp |-> time] >>
              ELSE <<>>)
             \o SpanSegmentsHexOnly(spans, index + 1, time)

\* parseHtmlContent: spans.forEach((span, index) => ...), from the span `index`
RECURSIVE SpanSegments(_, _, _)
SpanSegments(spans, index, time) ==
    IF index >= Len(spans) THEN <<>>
    ELSE LET span == spans[index + 1]
             text == TextContent(span.html)
             color == StyleColor(span.color)
             isUserInput == color = "rgb(34, 197, 94)" \/ color = "#22c55e"
         IN  (IF Trim(text) # <<>>
              THEN << [id |-> LoadedId(time, index), text |-> Trim(text),
                       isUserInput |-> isUserInput, timestamp |-> time] >>
              ELSE <<>>)
             \o SpanSegments(spans, index + 1, time)

\* parseHtmlContent as it would be without the check of the content container
ParseHtmlContentUnchecked(doc, time) ==
    [ok |-> TRUE,
     title |-> IF doc.h1 = <<>> \/ TextContent(doc.h1[1]) = <<>>
               THEN Untitled ELSE TextContent(doc.h1[1]),
     segments |-> IF doc.content = <<>> THEN <<>>
                  ELSE SpanSegments(doc.content[1], 0, time)]

\* parseHtmlContent; ok is FALSE when it throws 'Invalid HTML structure'
ParseHtmlContent(doc, time) ==
    IF doc.content = <<>>
    THEN [ok |-> FALSE, title |-> <<>>, segments |-> <<>>]
    ELSE [ok |-> TRUE,
          title |-> IF doc.h1 = <<>> \/ TextContent(doc.h1[1]) = <<>>
                    THEN Untitled ELSE TextContent(doc.h1[1]),
          segments |-> SpanSegments(doc.content[1], 0, time)]

Lowers == <<"a", "b", "c", "d", "e", "f", "g", "h", "i", "j", "k", "l", "m",
            "n", "o", "p", "q", "r", "s", "t", "u", "v", "w", "x", "y", "z">>
Uppers == <<"A", "B", "C", "D", "E", "F", "G", "H", "I", "J", "K", "L", "M",
            "N", "O", "P", "Q", "R", "S", "T", "U", "V", "W", "X", "Y", "Z">>
IsAlnum(c) ==
    \/ c \in {"0", "1", "2", "3", "4", "5", "6", "7", "8", "9"}
    \/ \E i \in 1..Len(Lowers) : c = Lowers[i] \/ c = Uppers[i]

ToLowerCase(c) ==
    IF \E i \in 1..Len(Uppers) : c = Uppers[i]
    THEN Lowers[CHOOSE i \in 1..Len(Uppers) : c = Uppers[i]]
    ELSE c

\* .replace(/[^a-z0-9]/gi, '_').replace(/_+/g, '_')
RECURSIVE Underscored(_)
Underscored(t) ==
    IF t = <<>> THEN <<>>
    ELSE LET rest == Underscored(Tail(t))
         IN  IF IsAlnum(Head(t)) THEN <<Head(t)>> \o rest
             ELSE IF rest # <<>> /\ Head(rest) = "_" THEN rest
             ELSE <<"_">> \o rest

\* sanitizeFilename
SanitizeFilename(t) ==
    LET u == Underscored(t)
        v == IF u # <<>> /\ Head(u) = "_" THEN Tail(u) ELSE u
        w == IF v # <<>> /\ v[Len(v)] = "_" THEN SubSeq(v, 1, Len(v) - 1) ELSE v
        l == [i \in 1..Len(w) |-> ToLowerCase(w[i])]
    IN  IF l = <<>> THEN <<"u", "n", "t", "i", "t", "l", "e", "d">> ELSE l

\* A file handed to saveAs: the type of its Blob, its name (the date left out),
\* and its content: a document, or audio data in the encoding `encoding`.
File(type, stem, ext, html, blob, encoding) ==
    [type |-> type, stem |-> stem, ext |-> ext, html |-> html, blob |-> blob,
     encoding |-> encoding]

\* saveAsHtml
SaveAsHtml(t, segs) ==
    File("text/html;charset=utf-8", SanitizeFilename(t), "html",
         GenerateHtmlContent(t, segs), NoBlob, "html")

\* saveAudioFile. conversion: "ok", or "fails" (convertToMp3 catches an error of
\* the decoding or the encoding and returns the recording retyped audio/mp3).
SaveAudioFile(audioBlob, filename, format, conversion) ==
    IF format = "mp3"
    THEN File("audio/mp3", filename, "mp3", NoDocument, audioBlob,
              IF conversion = "ok" THEN "mp3" ELSE "webm")
    ELSE File("audio/webm", filename, "webm", NoDocument, audioBlob, "webm")

\* ------------------------------------------------------ App: the document
NothingToSave == "Nothing to save! Please record some audio first."
FailedToParse == "Failed to load file: Failed to parse HTML file"
FailedToRead == "Failed to load file: Failed to read file"
NoRecordingToSave == "No recording to save"

\* The last load whose file was read: the document, whether it was decoded,
\* whether the App had written it, and whether only the load's own insertions
\* have touched the list since.
NoLoad == [done |-> FALSE, ok |-> FALSE, saved |-> FALSE, doc |-> NoDocument,
           clean |-> FALSE]

Loading(doc, ok) ==
    [done |-> TRUE, ok |-> ok,
     saved |-> \E i \in 1..Len(written) : written[i].html = doc,
     doc |-> doc, clean |-> ok /\ timers = <<>>]

\* An operation other than the load's own insertions has touched the list.
Touched == [loaded EXCEPT !.clean = FALSE]

hookState == <<currentRealtimeId, renderedRealtimeId, now, lastCall, run>>

\* TitleInput: onChange={setTitle}
SetTitle(t) ==
    /\ title' = t
    /\ report' = Null
    /\ UNCHANGED <<segments, timers, written, loaded>>
    /\ UNCHANGED hookState
    /\ UNCHANGED recVars

\* A batch transcription hands its text to onTranscription.
TranscriptionArrives(text) ==
    /\ Len(segments) < MaxSegs
    /\ segments' = AddTranscribedTextSegs(segments, text, now, Random(segments))
    /\ loaded' = Touched
    /\ report' = Null
    /\ UNCHANGED <<title, timers, written>>
    /\ UNCHANGED hookState
    /\ UNCHANGED recVars

\* handleTextChange as it would be if it took the first segment
HandleTextChangeFirst(newText) ==
    /\ segments' =
           IF Len(segments) > 0
           THEN SetTextAndInputOfId(segments, segments[1].id, newText, TRUE)
           ELSE segments
    /\ loaded' = Touched
    /\ report' = Null
    /\ UNCHANGED <<title, timers, written>>
    /\ UNCHANGED hookState
    /\ UNCHANGED recVars

\* TextEditor.handleTextChange: the whole text area goes to the last segment
HandleTextChange(newText) ==
    /\ segments' =
           IF Len(segments) > 0
           THEN SetTextAndInputOfId(segments, segments[Len(segments)].id, newText, TRUE)
           ELSE segments
    /\ loaded' = Touched
    /\ report' = Null
    /\ UNCHANGED <<title, timers, written>>
    /\ UNCHANGED hookState
    /\ UNCHANGED recVars

\* handleSave as it would be without the guard on the empty list
HandleSaveUnguarded ==
    /\ Len(written) < MaxFiles
    /\ written' = Append(written, SaveAsHtml(title, segments))
    /\ report' = Null
    /\ UNCHANGED <<segments, title, timers, loaded>>
    /\ UNCHANGED hookState
    /\ UNCHANGED recVars

\* App.handleSave
HandleSave ==
    /\ IF Len(segments) = 0
       THEN /\ report' = NothingToSave
            /\ UNCHANGED written
       ELSE /\ Len(written) < MaxFiles
            /\ written' = Append(written, SaveAsHtml(title, segments))
            /\ report' = Null
    /\ UNCHANGED <<segments, title, timers, loaded>>
    /\ UNCHANGED hookState
    /\ UNCHANGED recVars

\* The insertions handleLoad defers: one per decoded segment, in order
Insertions(segs) == [i \in 1..Len(segs) |-> segs[i]]

\* App.handleLoad, from the moment the FileReader reports. The handler reads no
\* state after its await, so the call and the report are one step.
HandleLoad(doc, readOk) ==
    LET parsed == ParseHtmlContent(doc, now)
    IN  /\ IF ~readOk
           THEN /\ report' = FailedToRead
                /\ UNCHANGED <<segments, title, timers, loaded>>
           ELSE IF ~parsed.ok
           THEN /\ report' = FailedToParse
                /\ loaded' = Loading(doc, FALSE)
                /\ UNCHANGED <<segments, title, timers>>
           ELSE /\ parsed.segments # <<>> => Len(timers) < MaxLoads
                /\ title' = parsed.title
                /\ segments' = <<>>
                /\ timers' = IF parsed.segments = <<>> THEN timers
                              ELSE Append(timers, Insertions(parsed.segments))
                /\ loaded' = Loading(doc, TRUE)
                /\ report' = Null
        /\ UNCHANGED written
        /\ UNCHANGED hookState
        /\ UNCHANGED recVars

RemoveAt(seq, i) == SubSeq(seq, 1, i - 1) \o SubSeq(seq, i + 1, Len(seq))

\* The next timeout of the load l fires: addTranscribedText(segment.text), and
\* updateSegment(segment.id, segment.text, true) for a user segment.
LoadTimer(l) ==
    /\ Len(segments) < MaxSegs
    /\ LET segment == Head(timers[l])
           added == AddTranscribedTextSegs(segments, segment.text, now, Random(segments))
       IN  segments' = IF segment.isUserInput
                       THEN SetTextAndInputOfId(added, segment.id, segment.text, TRUE)
                       ELSE added
    /\ timers' = IF Len(timers[l]) = 1 THEN RemoveAt(timers, l)
                  ELSE [timers EXCEPT ![l] = Tail(@)]
    /\ report' = Null
    /\ UNCHANGED <<title, written, loaded>>
    /\ UNCHANGED hookState
    /\ UNCHANGED recVars

\* App.handleClear; confirmed is the answer to the confirm dialog
HandleClear(confirmed) ==
    /\ IF Len(segments) > 0 /\ ~confirmed
       THEN UNCHANGED <<segments, title, loaded>>
       ELSE /\ segments' = <<>>
            /\ title' = UntitledNote
            /\ loaded' = Touched
    /\ report' = Null
    /\ UNCHANGED <<timers, written>>
    /\ UNCHANGED hookState
    /\ UNCHANGED recVars

\* saveRecording as it would be without the check of currentBlob
SaveRecordingUnchecked(filename, format, conversion) ==
    /\ Len(written) < MaxFiles
    /\ written' = Append(written,
                         SaveAudioFile(hook.currentBlob, filename, format, conversion))
    /\ report' = Null
    /\ UNCHANGED <<segments, title, timers, loaded>>
    /\ UNCHANGED hookState
    /\ UNCHANGED recVars

\* useAudioRecording.saveRecording, with the audioFormat of the App
SaveRecording(filename, format, conversion) ==
    /\ IF ~hook.currentBlob.held
       THEN /\ report' = NoRecordingToSave
            /\ UNCHANGED written
       ELSE /\ Len(written) < MaxFiles
            /\ written' = Append(written,
                                 SaveAudioFile(hook.currentBlob, filename, format, conversion))
            /\ report' = Null
    /\ UNCHANGED <<segments, title, timers, loaded>>
    /\ UNCHANGED hookState
    /\ UNCHANGED recVars

\* The inputs of the document operations
EditTexts == { <<" ", "<">> }
Span(color, html) == [color |-> color, html |-> html]
Documents ==
    { [h1 |-> << <<"T">> >>, content |-> <<>>, total |-> 0],
      [h1 |-> <<>>, content |-> << <<>> >>, total |-> 0],
      [h1 |-> << <<"T">> >>,
       content |-> << << Span("#22c55e", <<"a">>), Span("#000000", <<" ", "b", " ">>),
                         Span("rgb(34, 197, 94)", <<"c">>) >> >>,
       total |-> 3],
      [h1 |-> << <<"T">> >>,
       content |-> << << Span("green", <<"&lt;">>), Span("#22c55e", <<" ">>) >> >>,
       total |-> 2] }


Init ==
    /\ InitSeg
    /\ svc = NewService
    /\ media = NewMedia
    /\ hook = NewHook
    /\ realtimeEnabled = FALSE
    /\ calls = <<>>
    /\ rt = NewRealtimeService
    /\ recognizers = <<>>
    /\ rthook = NewRealtimeHook
    /\ configured \in BOOLEAN
    /\ delivered = [n |-> 0, rec |-> 0, kind |-> "none", text |-> <<>>,
                    late |-> FALSE, finals |-> 0]
    /\ speech = NewSpeechService(configured)
    /\ selectedLanguage = "auto"
    /\ batches = <<>>
    /\ title = UntitledNote
    /\ timers = <<>>
    /\ written = <<>>
    /\ report = Null
    /\ loaded = NoLoad

AnalysisOutcomes == {"ok", "noContext", "noSource"}
InactiveStops == {"throws", "noop"}
BatchOutcomes == {"recognized", "noMatch", "canceled"}

\* The steps of a recording session; at most max calls are made.
Session(max) ==
    \/ ToggleRealtime
    \/ StartRecordingCall(max)
    \/ \E c \in 1..Len(calls), o \in {"denied", "noRecorder", "noStart", "ok"},
          a \in AnalysisOutcomes, f \in Frames :
           StartRecordingSettles(c, o, a, f)
    \/ \E i \in InactiveStops : StopRecordingCall(max, i)
    \/ \E r \in 1..Len(media.recorders) : DataAvailable(r)
    \/ \E r \in 1..Len(media.recorders), d \in BOOLEAN : RecorderStops(r, d)
    \/ \E c \in 1..Len(calls), o \in BatchOutcomes : BatchSettles(c, o, <<"a">>)
    \/ \E l \in media.frames, f \in Frames : AnimationFrame(l, f)
    \/ \E r \in 1..Len(recognizers), ok \in BOOLEAN : RecognitionStarted(r, ok)
    \/ \E r \in 1..Len(recognizers) : RecognitionStopped(r)

\* The recognizer delivers a result.
Results ==
    \/ \E r \in 1..Len(recognizers), t \in ResultTexts : Recognizing(r, t)
    \/ \E r \in 1..Len(recognizers), t \in ResultTexts :
           \E reason \in {"RecognizedSpeech", "NoMatch"} : Recognized(r, reason, t)

Next == Session(MaxCalls)

NextRt == Session(MaxRtCalls) \/ Results

\* Recording sessions in which the recognizer delivers no result.
Spec == Init /\ [][Next]_vars

\* Recording sessions with the results of the recognizer.
SpecRt == Init /\ [][NextRt]_vars

\* The App before any recording, the environment without Azure settings.
InitHooks ==
    /\ Init
    /\ configured = FALSE

\* The hook useTextSegments on its own, called with any arguments.
SpecSeg == InitHooks /\ [][NextSeg]_vars

\* The operations of the App on its title and its segment list.
Editing ==
    \/ SetTitle(<<>>)
    \/ TranscriptionArrives(<<"a">>)
    \/ \E t \in EditTexts : HandleTextChange(t)
    \/ \E l \in 1..Len(timers) : LoadTimer(l)
    \/ \E c \in BOOLEAN : HandleClear(c)

\* The App edits its document and loads files it did not write.
NextLoad ==
    \/ Editing
    \/ \E d \in Documents, ok \in BOOLEAN : HandleLoad(d, ok)

SpecLoad == InitHooks /\ [][NextLoad]_vars

\* The App edits, saves and loads its document, the files it wrote included.
NextDoc ==
    \/ Editing
    \/ HandleSave
    \/ \E d \in Documents \cup {written[i].html : i \in 1..Len(written)},
          ok \in BOOLEAN : HandleLoad(d, ok)

SpecDoc == InitHooks /\ [][NextDoc]_vars

\* Batch transcriptions in the languages the user selects.
NextLang ==
    \/ \E l \in {"auto", "en-US", "ja-JP"} : SetSelectedLanguage(l)
    \/ TranscribeAudioCall
    \/ \E b \in 1..Len(batches) : TranscribeAudioResumes(b)

SpecLang == Init /\ [][NextLang]_vars

\* Recording sessions and the saving of their recordings.
NextAudio ==
    \/ Session(MaxRtCalls)
    \/ \E f \in {"webm", "mp3"}, c \in {"ok", "fails"} : SaveRecording(<<"r">>, f, c)

SpecAudio == Init /\ [][NextAudio]_vars

\* The levels a frequency bin takes, and the frames of at most MaxBins bins.
FrameInputs == UNION { [1..n -> {0, 64, 128, 255}] : n \in 1..MaxBins }

\* Recording sessions whose analyser hands out any frame.
NextMag ==
    \/ StartRecordingCall(MaxMagCalls)
    \/ \E c \in 1..Len(calls), a \in AnalysisOutcomes, f \in FrameInputs :
           StartRecordingSettles(c, "ok", a, f)
    \/ StopRecordingCall(MaxMagCalls, "noop")
    \/ \E r \in 1..Len(media.recorders) : RecorderStops(r, FALSE)
    \/ \E l \in media.frames, f \in FrameInputs : AnimationFrame(l, f)

SpecMag == InitHooks /\ [][NextMag]_vars

\* Recording sessions of start and stop calls, without the analysis failures.
NextLive ==
    \/ StartRecordingCall(MaxCalls)
    \/ \E c \in 1..Len(calls), o \in {"ok", "denied"}, f \in Frames :
           StartRecordingSettles(c, o, "ok", f)
    \/ \E i \in InactiveStops : StopRecordingCall(MaxCalls, i)
    \/ \E r \in 1..Len(media.recorders), d \in BOOLEAN : RecorderStops(r, d)
    \/ \E c \in 1..Len(calls), o \in BatchOutcomes : BatchSettles(c, o, <<"a">>)

\* The browser runs every task it has queued and every request it has made
\* settles: the stream request, the stop task of a recorder, the transcription.
SpecLive ==
    /\ Init /\ [][NextLive]_vars
    /\ WF_vars(\E c \in 1..Len(calls), o \in {"ok", "denied"}, f \in Frames :
                  StartRecordingSettles(c, o, "ok", f))
    /\ WF_vars(\E r \in 1..Len(media.recorders), d \in BOOLEAN : RecorderStops(r, d))
    /\ WF_vars(\E c \in 1..Len(calls), o \in BatchOutcomes : BatchSettles(c, o, <<"a">>))

\* Recognition results applied through useTextSegments, and the App's save.
NextSave ==
    \/ \E t \in Texts : AddTranscribedText(t)
    \/ \E t \in Texts, f \in BOOLEAN : AddRealtimeText(t, f)
    \/ ClearSegments
    \/ Render
    \/ HandleSave

SpecSave == InitHooks /\ [][NextSave]_vars

\* ------------------------------------------------------------------ claims
IsProvisional(seg) == seg.id.prefix = "realtime_temp"

ProvisionalCount == Cardinality({i \in 1..Len(segments) : IsProvisional(segments[i])})

\* C1: after any sequence of addRealtimeText calls, in any grouping of the
\* calls between re-renders of the hook, the list holds at most one provisional
\* segment.
C1_AtMostOneProvisional == ProvisionalCount <= 1

\* C2: a run of one or more Partial calls and one Final(t) call with a
\* non-blank t, made on the empty list, leaves exactly one segment: its text is
\* trim(t), it is not provisional, and the provisional reference is null.
C2_FinalSupersedesProvisional ==
    (run = "final" /\ Trim(lastCall.text) # <<>>) =>
        /\ Len(segments) = 1
        /\ segments[1].text = Trim(lastCall.text)
        /\ ~IsProvisional(segments[1])
        /\ currentRealtimeId = NullId

\* The texts the batch transcriptions have forwarded to the list.
BatchForwarded == Sum([c \in 1..Len(calls) |-> calls[c].forwarded])

\* C3: a recognizer result reaches the list as an event of its own kind: an
\* intermediate result with a text leaves one provisional segment after the
\* permanent ones, a final result with a text leaves no provisional segment and
\* one permanent segment per final result.
C3_EventsKeepTheirKind ==
    /\ (delivered.kind = "interim" /\ Trim(delivered.text) # <<>>) =>
            /\ ProvisionalCount = 1
            /\ Len(segments) = delivered.finals + BatchForwarded + 1
    /\ (delivered.kind = "final" /\ Trim(delivered.text) # <<>>) =>
            /\ ProvisionalCount = 0
            /\ Len(segments) = delivered.finals + BatchForwarded

\* C4: a startRecording call made while a recording is active fails, and leaves
\* the stream, the recorder and the chunks of the active session in place.
C4_SecondStartFails ==
    [][\A c \in 1..Len(calls) :
          (calls[c].kind = "start" /\ calls[c].active
             /\ calls[c].pc = "acquiring" /\ calls'[c].pc = "done") =>
                /\ hook'.error # Null
                /\ svc'.stream = svc.stream
                /\ svc'.mediaRecorder = svc.mediaRecorder
                /\ svc'.audioChunks = svc.audioChunks]_vars

\* C5: a stopRecording call made while the service holds no recorder fails with
\* "No active recording": the service and the browser objects are unchanged, the
\* hook holds the error, isRecording is false, currentBlob is unchanged, and the
\* call ends without a batch transcription; a call that has ended does nothing
\* more.
C5_StopWithoutRecorder ==
    [][/\ (Len(calls') = Len(calls) + 1 /\ calls'[Len(calls')].kind = "stop"
            /\ svc.mediaRecorder = 0) =>
               /\ svc' = svc
               /\ media' = media
               /\ hook'.error = "No active recording"
               /\ ~hook'.isRecording
               /\ hook'.currentBlob = hook.currentBlob
               /\ segments' = segments
               /\ calls'[Len(calls')].pc = "done"
               /\ calls'[Len(calls')].batchCalls = 0
       /\ \A c \in 1..Len(calls) : calls[c].pc = "done" => calls'[c] = calls[c]]_vars

\* A stopRecording call was rejected for want of a recorder while the hook held
\* the Blob of an earlier recording.
C5_Witness ==
    \E c \in 1..Len(calls) :
        /\ calls[c].kind = "stop" /\ calls[c].pc = "done" /\ calls[c].rec = 0
        /\ ~calls[c].active
        /\ hook.error = "No active recording"
        /\ hook.currentBlob.held

\* C6: when startRecording fails after it acquired the stream, the tracks of
\* that stream are stopped and the service no longer refers to it.
C6_FailedStartReleasesStream ==
    [][\A c \in 1..Len(calls) :
          (calls[c].kind = "start" /\ calls[c].pc = "acquiring" /\ calls'[c].pc = "done"
             /\ hook'.error = "Failed to start recording"
             /\ Len(media'.streams) > Len(media.streams)) =>
                /\ ~media'.streams[Len(media'.streams)]
                /\ svc'.stream # Len(media'.streams)]_vars

\* The chunks the recorder r has delivered, in the order of their arrival.
ChunksOf(m, r) == [k \in 1..m.recorders[r].emitted |-> Chunk(r, k)]

\* C7: a stopRecording call made while recording: when the stop event of its
\* recorder fires, the call resumes with a Blob of exactly the chunks the
\* recorder delivered, the tracks of the recorder's stream are stopped, and the
\* service holds no stream, no recorder and no chunk.
C7_StopFromActive ==
    [][\A c \in 1..Len(calls) :
          (calls[c].kind = "stop" /\ calls[c].active /\ calls[c].pc = "stopping"
             /\ media.recorders[calls[c].rec].stopQueued
             /\ ~media'.recorders[calls[c].rec].stopQueued) =>
                /\ calls'[c].pc # "stopping"
                /\ calls'[c].audioBlob = Blob(ChunksOf(media', calls[c].rec))
                /\ ~media'.streams[media.recorders[calls[c].rec].stream]
                /\ svc'.stream = 0
                /\ svc'.mediaRecorder = 0
                /\ svc'.audioChunks = <<>>]_vars

\* C8: a result a recognizer delivers after it was asked to stop changes no
\* segment.
C8_LateEventsDiscarded ==
    [][(delivered'.n = delivered.n + 1 /\ delivered'.late) => segments' = segments]_vars

\* The session of the recorder r used real-time recognition: a recognizer was
\* opened for it and did not fail to start.
UsedRealtime(r) ==
    /\ media.recorders[r].recognizer # 0
    /\ recognizers[media.recorders[r].recognizer].started # "failed"

\* C9: a stopRecording call that got the Blob of a session has made exactly one
\* batch transcription call if the session did not use real-time recognition,
\* and none if it did; it forwards a text at most once.
C9_BatchIffNotRealtime ==
    \A c \in 1..Len(calls) :
        (calls[c].kind = "stop" /\ calls[c].audioBlob.held) =>
            /\ calls[c].batchCalls = IF UsedRealtime(calls[c].rec) THEN 0 ELSE 1
            /\ calls[c].forwarded <= calls[c].batchCalls

\* C10: a stopRecording call that has stopped the recorder of a session that
\* used real-time recognition has stopped the real-time transcription first.
C10_TransportStoppedFirst ==
    \A c \in 1..Len(calls) :
        (calls[c].kind = "stop" /\ calls[c].rec # 0 /\ UsedRealtime(calls[c].rec)) =>
            calls[c].rtStopped

\* C11: the load of a file that has no content container fails to parse, and
\* installs nothing: the title, the segment list and the deferred insertions are
\* what they were, and no file is written.
C11_MalformedLoadInstallsNothing ==
    [][(loaded' # loaded /\ loaded'.doc.content = <<>>) =>
          /\ report' = FailedToParse
          /\ ~loaded'.ok
          /\ title' = title
          /\ segments' = segments
          /\ timers' = timers
          /\ written' = written]_vars

\* The load of a file without a content container has failed while the App held
\* a title of its own and a segment.
C11_Witness ==
    /\ report = FailedToParse
    /\ loaded.done /\ ~loaded.ok /\ loaded.doc.content = <<>>
    /\ title = <<>>
    /\ Len(segments) > 0

\* The file a step has handed to saveAs
LastWritten == written'[Len(written')]

\* The lists a and b match pairwise, in order, on text and provenance.
SameTextAndProvenance(a, b) ==
    /\ Len(a) = Len(b)
    /\ \A i \in 1..Len(a) :
          a[i].text = b[i].text /\ a[i].isUserInput = b[i].isUserInput

\* C12: decoding the document encoded from a title and a list of segments with
\* non-empty texts gives back the title and a list that matches the encoded one
\* pairwise on text and provenance.
C12_RoundTrip ==
    [][(Len(written') > Len(written)
          /\ \A i \in 1..Len(segments) : segments[i].text # <<>>) =>
             LET decoded == ParseHtmlContent(LastWritten.html, now)
             IN  /\ decoded.ok
                 /\ decoded.title = title
                 /\ SameTextAndProvenance(decoded.segments, segments)]_vars

\* C13: when the App has loaded a document it had saved and the deferred
\* insertions of the load have all run, nothing else having touched the list,
\* the list matches the decoded segments on text and provenance.
C13_LoadKeepsProvenance ==
    (loaded.ok /\ loaded.saved /\ loaded.clean /\ timers = <<>>) =>
        SameTextAndProvenance(segments, ParseHtmlContent(loaded.doc, now).segments)

\* The spans of the document d whose trimmed text is not empty
KeptSpans(d) ==
    {i \in 1..Len(d.content[1]) : Trim(TextContent(d.content[1][i].html)) # <<>>}

\* The k-th of them in document order
KeptSpan(d, k) ==
    CHOOSE i \in KeptSpans(d) : Cardinality({j \in KeptSpans(d) : j <= i}) = k

\* C14: the decoded segments are, in document order, one per span whose trimmed
\* text is not empty: the text is the trimmed text of the span, and the segment
\* is a user segment exactly when the span is written in the accent colour, in
\* its hex or its rgb form.
C14_DecodedSegments ==
    loaded.ok =>
        LET decoded == ParseHtmlContent(loaded.doc, now).segments
        IN  /\ Len(decoded) = Cardinality(KeptSpans(loaded.doc))
            /\ \A k \in 1..Len(decoded) :
                  LET span == loaded.doc.content[1][KeptSpan(loaded.doc, k)]
                  IN  /\ decoded[k].text = Trim(TextContent(span.html))
                      /\ decoded[k].isUserInput =
                             (span.color \in {"#22c55e", "rgb(34, 197, 94)"})

\* A document with an accent span in each form, a neutral span between them and
\* padded text has been decoded.
C14_Witness ==
    /\ loaded.ok
    /\ Len(loaded.doc.content[1]) = 3
    /\ Cardinality(KeptSpans(loaded.doc)) = 3
    /\ timers # <<>>

\* C15: a save of the empty list shows the nothing-to-save alert and hands no
\* file to saveAs; the title and the list are unchanged.
C15_EmptySaveWritesNothing ==
    [][/\ Len(written') > Len(written) => Len(segments) > 0
       /\ (report' = NothingToSave /\ report' # report) =>
              /\ Len(segments) = 0
              /\ written' = written
              /\ title' = title
              /\ segments' = segments]_vars

\* A save of the empty list has failed after an earlier save wrote a file.
C15_Witness ==
    /\ report = NothingToSave
    /\ Len(segments) = 0
    /\ written # <<>>

\* C16: while currentBlob is null no step writes a file, and saveRecording
\* fails with 'No recording to save'.
C16_NoRecordingToSave ==
    [][~hook.currentBlob.held =>
          /\ written' = written
          /\ report' # report => report' = NoRecordingToSave]_vars

\* saveRecording has failed after a stopRecording call that was rejected.
C16_Witness ==
    /\ report = NoRecordingToSave
    /\ written = <<>>
    /\ ~hook.currentBlob.held
    /\ \E c \in 1..Len(calls) :
          calls[c].kind = "stop" /\ calls[c].pc = "done" /\ ~calls[c].audioBlob.held

\* C17: no file with the mp3 extension or the audio/mp3 type holds data that is
\* not MP3-encoded.
C17_NoMislabeledMp3 ==
    \A i \in 1..Len(written) :
        (written[i].ext = "mp3" \/ written[i].type = "audio/mp3") =>
            written[i].encoding = "mp3"

\* C18: the text of every segment is non-empty and trimmed.
C18_TextsNonEmptyTrimmed ==
    \A i \in 1..Len(segments) :
        segments[i].text # <<>> /\ Trim(segments[i].text) = segments[i].text

\* The segments of the list that are not provisional, in order
Finalized == SelectSeq(segments, LAMBDA seg : ~IsProvisional(seg))

\* C19: the document a save writes is the encoding of the finalized segments: a
\* provisional segment is not part of it.
C19_SaveExcludesProvisional ==
    [][Len(written') > Len(written) =>
          LastWritten.html = GenerateHtmlContent(title, Finalized)]_vars

\* C20: when the last call is a stopRecording that got its Blob and no
\* startRecording is under way, no animation frame is scheduled, every
\* AudioContext is closed and the service holds no analysis object.
C20_AnalysisReleased ==
    (/\ Len(calls) > 0
     /\ calls[Len(calls)].kind = "stop"
     /\ calls[Len(calls)].audioBlob.held
     /\ \A c \in 1..Len(calls) : calls[c].pc # "acquiring") =>
        /\ media.frames = {}
        /\ \A k \in 1..Len(media.contexts) : ~media.contexts[k]
        /\ svc.animationFrame = 0
        /\ svc.audioContext = 0
        /\ ~svc.analyser

\* C21: whenever the analysis loop has read a frame of bins and the callback is
\* set, the magnitude the callback received is min(mean(bins) / 128, 1); the
\* magnitude the hook holds is always within 0 and 1.
C21_MagnitudeClamped ==
    [][/\ hook'.audioMagnitude.den > 0
       /\ 0 <= hook'.audioMagnitude.num
       /\ hook'.audioMagnitude.num <= hook'.audioMagnitude.den
       /\ (svc'.data # svc.data /\ svc'.data # <<>> /\ svc'.onMagnitudeUpdate) =>
              LET s == Sum(svc'.data)
                  n == Len(svc'.data)
                  m == hook'.audioMagnitude
              IN  IF s >= 128 * n THEN m.num = m.den
                  ELSE m.num * 128 * n = s * m.den]_vars

\* The callback has received the magnitude of a frame whose mean is above 128.
C21_Witness ==
    /\ svc.data # <<>>
    /\ Sum(svc.data) > 128 * Len(svc.data)
    /\ svc.onMagnitudeUpdate
    /\ IsRecording(World)
    /\ hook.audioMagnitude = One

\* The stop call c ends in this step with its one batch transcription failed.
BatchFails(c) ==
    /\ calls[c].kind = "stop"
    /\ calls[c].pc # "done"
    /\ calls'[c].pc = "done"
    /\ calls'[c].audioBlob.held
    /\ calls'[c].batchCalls = 1
    /\ calls'[c].forwarded = 0

\* C22: when the batch transcription of a stopRecording call fails, isRecording
\* is false, the stream of the recorder the call stopped is released, the error
\* is set, no segment is appended, and currentBlob holds the Blob of the call
\* (of the last stopRecording call, when several were made).
C22_BatchFailureEndsIdle ==
    [][\A c \in 1..Len(calls) :
          BatchFails(c) =>
             /\ ~hook'.isRecording
             /\ hook'.error # Null
             /\ segments' = segments
             /\ ~media'.streams[media'.recorders[calls'[c].rec].stream]
             /\ hook'.currentBlob.held
             /\ (\A d \in (c + 1)..Len(calls) : calls[d].kind # "stop") =>
                    hook'.currentBlob = calls'[c].audioBlob]_vars

\* The start call c ends in this step: its recorder is recording and the
\* opening of the recognition transport has failed for missing credentials.
TransportFails(c) ==
    /\ calls[c].kind = "start" /\ calls[c].realtime
    /\ calls[c].pc = "acquiring" /\ calls'[c].pc = "done"
    /\ Len(media'.recorders) = Len(media.recorders) + 1
    /\ media'.recorders[Len(media'.recorders)].state = "recording"
    /\ ~configured

\* Every startRecording call so far asked for the real-time transcription.
AllStartsRealtime ==
    \A d \in 1..Len(calls) : calls[d].kind = "start" => calls[d].realtime

\* C23: when the recognition transport fails to open in startRecording, the
\* hook is recording with no error of its own, the service holds the new
\* recorder and its live stream; a stopRecording call made on such a session
\* stops the recorder and waits for its stop event, and the stop event gives
\* the call its Blob, which becomes currentBlob, with isRecording false.
C23_TransportFailureConfined ==
    [][/\ \A c \in 1..Len(calls) :
             TransportFails(c) =>
                /\ hook'.isRecording
                /\ hook'.error = hook.error
                /\ rthook'.error = NotConfigured
                /\ svc'.mediaRecorder = Len(media'.recorders)
                /\ svc'.stream = media'.recorders[svc'.mediaRecorder].stream
                /\ media'.streams[svc'.stream]
       /\ (~configured /\ AllStartsRealtime /\ Len(calls') = Len(calls) + 1
             /\ calls'[Len(calls')].kind = "stop" /\ calls'[Len(calls')].active) =>
                /\ calls'[Len(calls')].pc = "stopping"
                /\ calls'[Len(calls')].rec = svc.mediaRecorder
                /\ media'.recorders[svc.mediaRecorder].state = "inactive"
                /\ media'.recorders[svc.mediaRecorder].stopQueued
       /\ \A c \in 1..Len(calls) :
             (~configured /\ AllStartsRealtime
                /\ calls[c].kind = "stop" /\ calls[c].pc = "stopping"
                /\ calls'[c].pc # "stopping") =>
                   /\ calls'[c].audioBlob.held
                   /\ hook'.currentBlob = calls'[c].audioBlob
                   /\ ~hook'.isRecording]_vars

\* After a start whose transport failed to open, a stopRecording call has got
\* the Blob with the chunks of the session.
C23_Witness ==
    /\ ~configured
    /\ rthook.error = NotConfigured
    /\ Len(calls) = 2
    /\ calls[1].kind = "start" /\ calls[1].realtime
    /\ calls[2].kind = "stop" /\ calls[2].pc = "done" /\ calls[2].active
    /\ calls[2].audioBlob.held /\ calls[2].audioBlob.chunks # <<>>
    /\ hook.currentBlob = calls[2].audioBlob
    /\ ~hook.isRecording

\* C24: a Partial with a non-blank text, on a list without a provisional
\* segment, appends one provisional machine segment with the trimmed text and
\* makes it the provisional reference; on a list with a provisional segment it
\* replaces the text of that segment and changes nothing else.
C24_PartialCreatesOrReplaces ==
    [][\A t \in Texts :
          (Trim(t) # <<>> /\ AddRealtimeText(t, FALSE)) =>
             IF ProvisionalCount = 0
             THEN /\ Len(segments') = Len(segments) + 1
                  /\ SubSeq(segments', 1, Len(segments)) = segments
                  /\ IsProvisional(segments'[Len(segments')])
                  /\ ~segments'[Len(segments')].isUserInput
                  /\ segments'[Len(segments')].text = Trim(t)
                  /\ currentRealtimeId' = segments'[Len(segments')].id
             ELSE /\ Len(segments') = Len(segments)
                  /\ \A i \in 1..Len(segments) :
                        segments'[i] = IF IsProvisional(segments[i])
                                       THEN [segments[i] EXCEPT !.text = Trim(t)]
                                       ELSE segments[i]]_vars

\* C25: a Final with a non-blank text leaves the segments that were not
\* provisional, in their order, followed by one new finalized machine segment
\* with the trimmed text; the provisional reference is null.
C25_FinalReplacesProvisional ==
    [][\A t \in Texts :
          (Trim(t) # <<>> /\ AddRealtimeText(t, TRUE)) =>
             /\ Len(segments') = Len(Finalized) + 1
             /\ SubSeq(segments', 1, Len(Finalized)) = Finalized
             /\ ~IsProvisional(segments'[Len(segments')])
             /\ ~segments'[Len(segments')].isUserInput
             /\ segments'[Len(segments')].text = Trim(t)
             /\ currentRealtimeId' = NullId]_vars

\* C26: addRealtimeText with an empty or whitespace-only text, Partial or
\* Final, leaves the list and the provisional reference as they were.
C26_BlankTextIgnored ==
    [][\A t \in Texts, f \in BOOLEAN :
          (Trim(t) = <<>> /\ AddRealtimeText(t, f)) =>
             /\ segments' = segments
             /\ currentRealtimeId' = currentRealtimeId]_vars

\* A blank text was the last call while a provisional segment was in the list.
C26_Witness ==
    /\ lastCall.op = "addRealtimeText"
    /\ lastCall.text # <<>> /\ Trim(lastCall.text) = <<>>
    /\ ProvisionalCount = 1
    /\ currentRealtimeId # NullId

\* C27: updateSegment(id, newText, isUserInput) gives the segments with that id
\* the new text and provenance and leaves the length of the list, the order,
\* the ids and every other segment unchanged; with no such segment the list is
\* unchanged.
C27_UpdateChangesOnlyTheMatch ==
    [][\A id \in IdsInList \cup {TempId(0)}, t \in Texts, u \in BOOLEAN :
          UpdateSegment(id, t, u) =>
             /\ Len(segments') = Len(segments)
             /\ \A i \in 1..Len(segments) :
                   segments'[i] = IF segments[i].id = id
                                  THEN [segments[i] EXCEPT !.text = t, !.isUserInput = u]
                                  ELSE segments[i]]_vars

\* The first of two segments was updated with a padded text, the second was not.
C27_Witness ==
    /\ lastCall.op = "updateSegment"
    /\ Len(segments) = 2
    /\ segments[1].id # segments[2].id
    /\ segments[1].text = <<" ", "b", " ">> /\ segments[1].isUserInput
    /\ segments[2].text = <<"a">> /\ ~segments[2].isUserInput

\* C28: clearSegments empties the list and sets the provisional reference to
\* null, and the first Partial with a text after it leaves one segment, the
\* new provisional one.
C28_ClearDiscardsProvisional ==
    [][/\ ClearSegments =>
             /\ segments' = <<>>
             /\ currentRealtimeId' = NullId
       /\ \A t \in Texts :
             (lastCall.op = "clearSegments" /\ Trim(t) # <<>>
                /\ AddRealtimeText(t, FALSE)) =>
                   /\ Len(segments') = 1
                   /\ IsProvisional(segments'[1])
                   /\ currentRealtimeId' = segments'[1].id]_vars

\* C29: on a list without a provisional segment, addTranscribedText(t) and
\* addRealtimeText(t, true) give lists that match on texts, provenances and
\* order, for every text t.
C29_BatchIsOneFinal ==
    ProvisionalCount = 0 =>
        \A t \in Texts :
            SameTextAndProvenance(
                AddTranscribedTextSegs(segments, t, now, Random(segments)),
                AddRealtimeTextSegs(segments, renderedRealtimeId, t, TRUE, now,
                                    Random(segments)))

\* C30: an edit of the text area on a non-empty list gives the last segment the
\* whole new text and the User provenance and changes no other segment; on the
\* empty list it changes neither the list nor the title.
C30_EditReplacesLastSegment ==
    [][\A t \in EditTexts :
          HandleTextChange(t) =>
             /\ Len(segments') = Len(segments)
             /\ title' = title
             /\ \A i \in 1..Len(segments) :
                   segments'[i] = IF i = Len(segments)
                                  THEN [segments[i] EXCEPT !.text = t,
                                                           !.isUserInput = TRUE]
                                  ELSE segments[i]]_vars

\* The last of two segments holds the edited text, the first is as it arrived.
C30_Witness ==
    /\ Len(segments) = 2
    /\ segments[2].text \in EditTexts /\ segments[2].isUserInput
    /\ segments[1].text \notin EditTexts /\ ~segments[1].isUserInput

\* TextEditor: combinedText = segments.map(segment => segment.text).join(' ')
RECURSIVE CombinedText(_)
CombinedText(segs) ==
    IF segs = <<>> THEN <<>>
    ELSE IF Len(segs) = 1 THEN segs[1].text
    ELSE segs[1].text \o <<" ">> \o CombinedText(Tail(segs))

\* C31: after an edit of the text area, the text the area shows (the texts of
\* the segments joined by spaces) is the text the user entered.
C31_EditShownBack ==
    [][\A t \in EditTexts :
          HandleTextChange(t) => CombinedText(segments') = t]_vars

\* C32: a Partial or Final recognition event removes no segment whose
\* provenance is User and replaces the text of none.
C32_UserSegmentsSurviveEvents ==
    [][LET UserSegments(segs) == SelectSeq(segs, LAMBDA seg : seg.isUserInput)
       IN  \A t \in Texts, f \in BOOLEAN :
              AddRealtimeText(t, f) =>
                 UserSegments(segments') = UserSegments(segments)]_vars

\* C33: the Blob a stopRecording call resumes with holds exactly the chunks
\* the recorder it stopped has delivered, in the order of their arrival,
\* whatever startRecording and stopRecording calls were made around it.
C33_BlobIsTheSessionsChunks ==
    [][\A c \in 1..Len(calls) :
          (calls[c].kind = "stop" /\ ~calls[c].audioBlob.held
             /\ calls'[c].audioBlob.held) =>
                calls'[c].audioBlob.chunks = ChunksOf(media', calls'[c].rec)]_vars

\* C34: every stopRecording call that waits for the stop event of a recorder
\* eventually settles: it resumes with the Blob or is rejected.
C34_StopSettles ==
    \A c \in 1..MaxCalls :
        (IF Len(calls) >= c
         THEN calls[c].kind = "stop" /\ calls[c].pc = "stopping" ELSE FALSE)
            ~> (IF Len(calls) >= c THEN calls[c].pc # "stopping" ELSE FALSE)

\* C35: when a stopRecording call has completed, the recognizer opened by the
\* startRecording of the session it stopped is not running any more: it was
\* asked to stop, or failed to start, or is closed.
C35_NoTransportLeftRunning ==
    LET Running(g) == /\ recognizers[g].stop = "none"
                      /\ recognizers[g].started # "failed"
                      /\ ~recognizers[g].closed
    IN  \A c \in 1..Len(calls) :
            (calls[c].kind = "stop" /\ calls[c].pc = "done" /\ calls[c].rec # 0
               /\ media.recorders[calls[c].rec].recognizer # 0) =>
                  ~Running(media.recorders[calls[c].rec].recognizer)

\* C36: once stopRealtimeTranscription has completed, and until the next
\* startRealtimeTranscription (the recognizer of the latest start has been
\* asked to stop), the service's isConnected is false, the hook's isConnected
\* is false and its connectionStatus is "disconnected", wherever the success
\* callback of startContinuousRecognitionAsync falls.
C36_StoppedStaysDisconnected ==
    (recognizers # <<>> /\ recognizers[Len(recognizers)].stop # "none") =>
        /\ ~rt.isConnected
        /\ ~rthook.isConnected
        /\ rthook.connectionStatus = "disconnected"

\* C37: in useRealtimeTranscription, isConnected is true exactly when
\* connectionStatus is "connected", whatever events and start and stop calls
\* have happened.
C37_ConnectedIffStatusConnected ==
    rthook.isConnected <=> (rthook.connectionStatus = "connected")

\* C38: at the step that runs the last pending insertion after a load that
\* decoded its file, the list holds the texts of that file's decoded segments,
\* in document order and nothing else, whatever happened while insertions
\* were pending.
C38_LoadedListIsTheFile ==
    [][LET TextsOf(segs) == [i \in 1..Len(segs) |-> segs[i].text]
       IN  (loaded.ok /\ timers # <<>> /\ timers' = <<>>) =>
              TextsOf(segments') =
                  TextsOf(ParseHtmlContent(loaded.doc, now).segments)]_vars

\* C39: two transcribeAudio calls made with the same options, a missing
\* language included, give their recognizers the same language, whatever
\* languages other calls have requested.
C39_LanguageFromOptionsAlone ==
    \A i, j \in 1..Len(batches) :
        (/\ batches[i].pc = "recognizing"
         /\ batches[j].pc = "recognizing"
         /\ batches[i].language = batches[j].language) =>
            batches[i].recognizer = batches[j].recognizer


====
